---- MODULE Spec2Model ----
(***************************************************************************)
(* Model of the Case Closed browser client (static/script.js).             *)
(*                                                                         *)
(* The client is one event loop.  Every async handler runs synchronously   *)
(* up to its fetch, then suspends; the response (or the failure) of each   *)
(* request is applied later in one uninterrupted step.  Requests in flight *)
(* are kept in the set inflight and may complete in any order.             *)
(*                                                                         *)
(* chatBox is an append-only log apart from the removal of "Thinking..."   *)
(* elements: the model keeps the messages appended by the last step        *)
(* (surfaced) and the in-progress elements still attached (indicators).    *)
(* Tab switching and textarea resizing change no state modelled here.      *)
(*                                                                         *)
(* Four specifications share the variables:                                *)
(*   Spec        the handlers and their requests (the protocol engine);    *)
(*   DraftSpec   displayDraft and the loop of handleDraftDownload,         *)
(*               followed line by line over a draft text;                  *)
(*   CasesSpec   updateCasesPanel, followed case by case;                  *)
(*   VariantSpec the alternative chat client of unnamed/part_001.          *)
(* In Spec the renderers are single steps and their locals stay idle; in   *)
(* DraftSpec and CasesSpec the client's globals stay as declared.          *)
(***************************************************************************)
EXTENDS Integers, Sequences, FiniteSets, TLC

\* ------------------------------------------------------------------ bounds
MaxReq == 2                 \* requests issued after bootstrap in one run
MaxServerAttempts == 2      \* largest clarify_attempts the backend sends

\* ------------------------------------------------------- values on the wire
Null == "null"              \* JS null
Undefined == "undefined"    \* JS undefined: a field absent from a JSON body
NoError == ""               \* data.error absent or empty (both falsy)
Ids == {"s1", "s2"}         \* session ids issued by the backend
Analyses == {"A1"}          \* non-empty analysis objects
EmptyAnalysis == "{}"       \* let currentAnalysis = {}
CaseLists == {<<>>, <<"k1">>, <<"k2", "k1">>}   \* <<>>: cases empty or absent
DraftDocs == {<<"d", "1">>, <<"d", "2">>}
ServerErrors == {"e1"}
ChatInputs == {<<" ">>, <<" ", "h", " ">>}
FileNames == {"f.pdf"}
DocTypes == {"memo"}

VARIABLES
    phase,                  \* position of the DOMContentLoaded handler
    clarifyMode, clarificationAnswers, clarifyAttempts, contextId,
    currentAnalysis, currentCases, currentDraftText,
    sessionIdEl, analysisPanel, casesPanel, draftContent, draftDownloadBtn,
    inflight,               \* requests awaiting their response
    nextReq,                \* number of requests issued after bootstrap
    indicators,             \* ids of requests whose in-progress element is in chatBox
    surfaced,               \* messages appended to chatBox by the last step
    ev,                     \* the handler step taken last, with its input
    lastApplied,            \* largest id of a chat request whose response was applied
    lastWrite,              \* the chat response that wrote the session last
    bootstrap,              \* how loadContext ended: "pending", "loaded" or "failed"
    doc,                    \* the draft text displayDraft and the download work on
    st,                     \* displayDraft: the locals of its loop over the lines
    pg,                     \* handleDraftDownload: the locals of its loop over the lines
    cp                      \* updateCasesPanel: the cases given and the items rendered

session == <<clarifyMode, clarificationAnswers, clarifyAttempts, contextId>>
held == <<currentAnalysis, currentCases, currentDraftText>>
panels == <<sessionIdEl, analysisPanel, casesPanel, draftContent, draftDownloadBtn>>
vars == <<phase, clarifyMode, clarificationAnswers, clarifyAttempts, contextId,
          currentAnalysis, currentCases, currentDraftText,
          sessionIdEl, analysisPanel, casesPanel, draftContent, draftDownloadBtn,
          inflight, nextReq, indicators, surfaced, ev, lastApplied, lastWrite,
          bootstrap, doc, st, pg, cp>>

history == <<lastApplied, lastWrite, bootstrap>>

\* the renderers run to completion inside one handler step; their locals are
\* state only where a renderer is followed line by line
aside == <<doc, st, pg, cp>>
Idle == [at |-> "idle"]

\* --------------------------------------------------------------- utilities
Truthy(x) == x \notin {Null, Undefined, ""}

IsSpace(c) == c \in {" ", "\t", "\n"}

RECURSIVE TrimStart(_)
TrimStart(s) ==
    IF s = <<>> THEN <<>>
    ELSE IF IsSpace(Head(s)) THEN TrimStart(Tail(s)) ELSE s

RECURSIVE TrimEnd(_)
TrimEnd(s) ==
    IF s = <<>> THEN <<>>
    ELSE IF IsSpace(s[Len(s)]) THEN TrimEnd(SubSeq(s, 1, Len(s) - 1)) ELSE s

Trim(s) == TrimEnd(TrimStart(s))

Bot(text) == [sender |-> "bot", text |-> text]
User(text) == [sender |-> "user", text |-> text]

\* updateSessionIndicator(id): the element changes only for a truthy id
updateSessionIndicator(id) == IF Truthy(id) THEN id ELSE sessionIdEl

\* updateAnalysisPanel(analysis): the placeholder for {} or a falsy value
updateAnalysisPanel(analysis) ==
    IF ~Truthy(analysis) \/ analysis = EmptyAnalysis
    THEN [kind |-> "empty-state", of |-> EmptyAnalysis]
    ELSE [kind |-> "analysis", of |-> analysis]

\* updateCasesPanel(cases): the placeholder for no cases, else one item per
\* case in input order
updateCasesPanel(cases) ==
    IF cases = <<>> THEN [kind |-> "empty-state", items |-> <<>>]
    ELSE [kind |-> "cases", items |-> cases]

\* displayDraft(docText): the panel shows the document
displayDraft(docText) == [kind |-> "document", text |-> docText]

ChatReqs == {r \in inflight : r.kind = "chat"}

\* -------------------------------------------------------------------- Init
\* The globals as declared; the panels as the page shows them before any
\* handler has run: placeholders, no session id, the download button hidden.
InitClient ==
    /\ phase = "init"
    /\ clarifyMode = FALSE
    /\ clarificationAnswers = <<>>
    /\ clarifyAttempts = 0
    /\ contextId = Null
    /\ currentAnalysis = EmptyAnalysis
    /\ currentCases = <<>>
    /\ currentDraftText = <<>>
    /\ sessionIdEl = ""
    /\ analysisPanel = [kind |-> "empty-state", of |-> EmptyAnalysis]
    /\ casesPanel = [kind |-> "empty-state", items |-> <<>>]
    /\ draftContent = [kind |-> "empty-state", text |-> <<>>]
    /\ draftDownloadBtn = "none"
    /\ inflight = {}
    /\ nextReq = 0
    /\ indicators = {}
    /\ surfaced = <<>>
    /\ ev = [kind |-> "none"]
    /\ lastApplied = 0
    /\ lastWrite = [status |-> "none", clarify_attempts |-> 0, context_id |-> Null]
    /\ bootstrap = "pending"

Init ==
    /\ InitClient
    /\ doc = Idle
    /\ st = Idle
    /\ pg = Idle
    /\ cp = Idle

\* ----------------------------------------------- bootstrap (DOMContentLoaded)
\* GET /context bodies: context_id null, absent or an id; context absent, or
\* present with analysis and cases each optional
ContextIds == {Null, Undefined, "s1"}
ContextCases == {<<>>, <<"k1">>}

ContextResponses ==
    [context_id : ContextIds, has_context : {FALSE},
     analysis : {Undefined}, has_cases : {FALSE}, cases : {<<>>}]
    \cup
    [context_id : ContextIds, has_context : {TRUE},
     analysis : {Undefined} \cup Analyses, has_cases : {FALSE}, cases : {<<>>}]
    \cup
    [context_id : ContextIds, has_context : {TRUE},
     analysis : {Undefined} \cup Analyses, has_cases : {TRUE}, cases : ContextCases]

\* a start that registers the handlers before it awaits loadContext()
DOMContentLoaded_RegistersFirst ==
    /\ phase = "init"
    /\ phase' = "ready"
    /\ inflight' = inflight \cup {[id |-> 0, kind |-> "context"]}
    /\ surfaced' = <<>>
    /\ ev' = [kind |-> "DOMContentLoaded"]
    /\ UNCHANGED <<session, held, panels, nextReq, indicators, history, aside>>

\* the handler starts: loadContext() issues GET /context and suspends
DOMContentLoaded ==
    /\ phase = "init"
    /\ phase' = "loading"
    /\ inflight' = inflight \cup {[id |-> 0, kind |-> "context"]}
    /\ surfaced' = <<>>
    /\ ev' = [kind |-> "DOMContentLoaded"]
    /\ UNCHANGED <<session, held, panels, nextReq, indicators, history, aside>>

\* a bootstrap that ends with loadContext, before the handlers are registered
setupEventListeners_NotReached == phase' = phase

\* setupTabs(); setupEventListeners(): the handlers exist from here on
setupEventListeners == phase' = "ready"

\* loadContext, the try block after both awaits
loadContextApply(data) ==
    /\ contextId' = data.context_id
    /\ sessionIdEl' = updateSessionIndicator(data.context_id)
    /\ IF data.has_context /\ Truthy(data.analysis)
       THEN /\ currentAnalysis' = data.analysis
            /\ analysisPanel' = updateAnalysisPanel(data.analysis)
       ELSE UNCHANGED <<currentAnalysis, analysisPanel>>
    /\ IF data.has_context /\ data.has_cases
       THEN /\ currentCases' = data.cases
            /\ casesPanel' = updateCasesPanel(data.cases)
       ELSE UNCHANGED <<currentCases, casesPanel>>
    /\ UNCHANGED <<clarifyMode, clarificationAnswers, clarifyAttempts,
                   currentDraftText, draftContent, draftDownloadBtn>>

LoadContextResponse ==
    \E r \in inflight, data \in ContextResponses :
        /\ r.kind = "context"
        /\ inflight' = inflight \ {r}
        /\ loadContextApply(data)
        /\ setupEventListeners
        /\ surfaced' = <<>>
        /\ ev' = [kind |-> "contextResponse", id |-> r.id, data |-> data]
        /\ bootstrap' = "loaded"
        /\ UNCHANGED <<nextReq, indicators, lastApplied, lastWrite, aside>>

\* fetch rejects, or the body is no JSON object: the catch block only logs
LoadContextFailure ==
    \E r \in inflight :
        /\ r.kind = "context"
        /\ inflight' = inflight \ {r}
        /\ setupEventListeners
        /\ surfaced' = <<>>
        /\ ev' = [kind |-> "contextFailure", id |-> r.id]
        /\ bootstrap' = "failed"
        /\ UNCHANGED <<session, held, panels, nextReq, indicators, lastApplied,
                       lastWrite, aside>>

\* ------------------------------------------------------------ chat submit
\* a body built from the initial session instead of the current one
ChatBody_InitialSession(message) ==
    [message |-> message, clarify_attempts |-> 0, context_id |-> Null]

\* the body of the POST /chat request
ChatBody(message) ==
    [message |-> message, clarify_attempts |-> clarifyAttempts, context_id |-> contextId]

\* if (!message) return;
chatSubmitEmpty ==
    /\ surfaced' = <<>>
    /\ UNCHANGED <<inflight, nextReq, indicators>>

\* the handler up to await fetch('/chat')
chatSubmitSend(message) ==
    /\ nextReq < MaxReq
    /\ nextReq' = nextReq + 1
    /\ surfaced' = <<User(message), Bot(<<"Thinking...">>)>>
    /\ indicators' = indicators \cup {nextReq + 1}
    /\ inflight' = inflight \cup
           {[id |-> nextReq + 1, kind |-> "chat", body |-> ChatBody(message)]}

handleChatSubmit ==
    \E text \in ChatInputs :
        /\ phase = "ready"
        /\ IF Trim(text) = <<>> THEN chatSubmitEmpty ELSE chatSubmitSend(Trim(text))
        /\ ev' = [kind |-> "chatSubmit", text |-> text]
        /\ UNCHANGED <<phase, session, held, panels, history, aside>>

\* ---------------------------------------------------------- chat response
\* POST /chat bodies, by the status discriminator; a field the backend omits
\* reads as undefined
Questions == <<"q1", "q2">>

ChatResponses ==
    [status : {"clarifying"}, clarify_attempts : 0..MaxServerAttempts,
     context_id : {Undefined} \cup Ids, has_questions : {TRUE},
     analysis : {Undefined} \cup Analyses]
    \cup
    [status : {"clarifying"}, clarify_attempts : 0..MaxServerAttempts,
     context_id : Ids, has_questions : {FALSE}, analysis : {Undefined}]
    \cup
    [status : {"results"}, context_id : {Undefined} \cup Ids,
     analysis : {Undefined} \cup Analyses, cases : CaseLists]
    \cup
    [status : {"error"}, message : ServerErrors]
    \cup
    [status : {"unknown"}]

\* questionsText: the questions in order, numbered from 1
RECURSIVE questionLines(_, _)
questionLines(qs, idx) ==
    IF qs = <<>> THEN <<>>
    ELSE <<ToString(idx + 1), ". ", Head(qs), "<br>">> \o questionLines(Tail(qs), idx + 1)

questionsText(qs) ==
    <<"<b>I need a bit more information:</b><br><br>">> \o questionLines(qs, 0)
    \o <<"<br>Please provide answers to these questions in your next message.">>

\* if (data.analysis) { currentAnalysis = ...; updateAnalysisPanel(...) }
refreshAnalysis(analysis) ==
    IF Truthy(analysis)
    THEN /\ currentAnalysis' = analysis
         /\ analysisPanel' = updateAnalysisPanel(analysis)
    ELSE UNCHANGED <<currentAnalysis, analysisPanel>>

\* a client that counts the clarification rounds itself
chatClarifying_Increments(r, data) ==
    /\ clarifyMode' = TRUE
    /\ clarifyAttempts' = clarifyAttempts + 1
    /\ contextId' = data.context_id
    /\ sessionIdEl' = updateSessionIndicator(data.context_id)
    /\ clarificationAnswers' = <<>>
    /\ surfaced' = <<Bot(<<"Server error.">>)>>
    /\ UNCHANGED <<held, analysisPanel, casesPanel, draftContent, draftDownloadBtn>>

\* if (data.status === 'clarifying') { ... return; }
\* data.questions.forEach throws when questions is absent: the catch block
\* then reports "Server error." after the session was written
chatClarifying(r, data) ==
    /\ clarifyMode' = TRUE
    /\ clarifyAttempts' = data.clarify_attempts
    /\ contextId' = data.context_id
    /\ sessionIdEl' = updateSessionIndicator(data.context_id)
    /\ clarificationAnswers' = <<>>
    /\ IF data.has_questions
       THEN /\ surfaced' = <<Bot(questionsText(Questions))>>
            /\ refreshAnalysis(data.analysis)
       ELSE /\ surfaced' = <<Bot(<<"Server error.">>)>>
            /\ UNCHANGED <<currentAnalysis, analysisPanel>>
    /\ UNCHANGED <<currentCases, casesPanel, currentDraftText, draftContent,
                   draftDownloadBtn>>

\* if (data.cases && data.cases.length > 0) { ... } else { ... }
resultsCases(cases) ==
    IF Len(cases) > 0
    THEN /\ currentCases' = cases
         /\ casesPanel' = updateCasesPanel(cases)
         /\ surfaced' = <<Bot(<<"Found ", ToString(Len(cases)),
                                " relevant cases. Check the Cases panel.">>),
                          Bot(<<"You can add more information to refine the search or generate a document.">>)>>
    ELSE /\ UNCHANGED <<currentCases, casesPanel>>
         /\ surfaced' = <<Bot(<<"No relevant cases found.">>),
                          Bot(<<"You can add more information to refine the search or generate a document.">>)>>

\* if (data.status === 'results') { ... return; }
chatResults(r, data) ==
    /\ clarifyMode' = FALSE
    /\ clarifyAttempts' = 0
    /\ clarificationAnswers' = <<>>
    /\ contextId' = data.context_id
    /\ sessionIdEl' = updateSessionIndicator(data.context_id)
    /\ refreshAnalysis(data.analysis)
    /\ resultsCases(data.cases)
    /\ UNCHANGED <<currentDraftText, draftContent, draftDownloadBtn>>

\* an error branch that ends the clarification in progress
chatError_ResetsClarification(data) ==
    /\ surfaced' = <<Bot(<<data.message>>)>>
    /\ clarifyMode' = FALSE
    /\ clarifyAttempts' = 0
    /\ UNCHANGED <<clarificationAnswers, contextId, held, panels>>

\* if (data.status === 'error') appendMessage('bot', `${data.message}`)
chatError(data) ==
    /\ surfaced' = <<Bot(<<data.message>>)>>
    /\ UNCHANGED <<session, held, panels>>

\* no branch matches the status: the handler ends without a message
chatUnrecognised ==
    /\ surfaced' = <<>>
    /\ UNCHANGED <<session, held, panels>>

\* the handler from `const data = await res.json()` on
ChatResponse ==
    \E r \in ChatReqs, data \in ChatResponses :
        /\ inflight' = inflight \ {r}
        /\ indicators' = indicators \ {r.id}
        /\ CASE data.status = "clarifying" -> chatClarifying(r, data)
             [] data.status = "results" -> chatResults(r, data)
             [] data.status = "error" -> chatError(data)
             [] OTHER -> chatUnrecognised
        /\ ev' = [kind |-> "chatResponse", id |-> r.id, data |-> data]
        /\ lastApplied' = IF r.id > lastApplied THEN r.id ELSE lastApplied
        /\ lastWrite' = CASE data.status = "clarifying" ->
                                [status |-> "clarifying",
                                 clarify_attempts |-> data.clarify_attempts,
                                 context_id |-> data.context_id]
                           [] data.status = "results" ->
                                [status |-> "results", clarify_attempts |-> 0,
                                 context_id |-> data.context_id]
                           [] OTHER -> lastWrite
        /\ UNCHANGED <<phase, nextReq, bootstrap, aside>>

\* a catch block that ends the clarification in progress
chatCatch_ResetsClarification(r) ==
    /\ indicators' = indicators \ {r.id}
    /\ surfaced' = <<Bot(<<"Server error.">>)>>
    /\ clarifyMode' = FALSE
    /\ UNCHANGED <<clarificationAnswers, clarifyAttempts, contextId, held, panels>>

\* catch (err) of handleChatSubmit: fetch rejected or the body did not parse
chatCatch(r) ==
    /\ indicators' = indicators \ {r.id}
    /\ surfaced' = <<Bot(<<"Server error.">>)>>
    /\ UNCHANGED <<session, held, panels>>

ChatFailure ==
    \E r \in ChatReqs :
        /\ inflight' = inflight \ {r}
        /\ chatCatch(r)
        /\ ev' = [kind |-> "chatFailure", id |-> r.id]
        /\ UNCHANGED <<phase, nextReq, history, aside>>

\* ------------------------------------------------------------- PDF upload
\* POST /upload bodies: {error}, or {filename, text, context_id, analysis?}
UploadResponses ==
    [error : ServerErrors, has_text : {FALSE}, context_id : {Undefined},
     analysis : {Undefined}]
    \cup
    [error : {NoError}, has_text : BOOLEAN, context_id : {Undefined} \cup Ids,
     analysis : {Undefined} \cup Analyses]

\* if (!pdfInput.files.length) return;
uploadNoFile ==
    /\ surfaced' = <<>>
    /\ UNCHANGED <<inflight, nextReq, indicators>>

\* the handler up to await fetch('/upload')
uploadSend(file) ==
    /\ nextReq < MaxReq
    /\ nextReq' = nextReq + 1
    /\ surfaced' = <<Bot(<<"Uploading <b>", file, "</b>...">>)>>
    /\ indicators' = indicators \cup {nextReq + 1}
    /\ inflight' = inflight \cup {[id |-> nextReq + 1, kind |-> "upload", file |-> file]}

handlePDFUpload ==
    \E files \in {<<>>} \cup {<<f>> : f \in FileNames} :
        /\ phase = "ready"
        /\ IF Len(files) = 0 THEN uploadNoFile ELSE uploadSend(files[1])
        /\ ev' = [kind |-> "pdfChange", files |-> files]
        /\ UNCHANGED <<phase, session, held, panels, history, aside>>

\* the try block after both awaits; data.text.substring throws when text is
\* absent, after "Uploaded" was appended and before the session is written
uploadApply(data) ==
    /\ UNCHANGED <<clarifyMode, clarificationAnswers, clarifyAttempts, currentCases,
                   currentDraftText, casesPanel, draftContent, draftDownloadBtn>>
    /\ IF Truthy(data.error)
       THEN /\ surfaced' = <<Bot(<<"Error: ", data.error>>)>>
            /\ UNCHANGED <<contextId, sessionIdEl, currentAnalysis, analysisPanel>>
       ELSE IF ~data.has_text
       THEN /\ surfaced' = <<Bot(<<"Uploaded: <b>", "filename", "</b>">>),
                             Bot(<<"Upload failed.">>)>>
            /\ UNCHANGED <<contextId, sessionIdEl, currentAnalysis, analysisPanel>>
       ELSE /\ surfaced' = <<Bot(<<"Uploaded: <b>", "filename", "</b>">>),
                             Bot(<<"<i>Extracted text preview:</i><br>", "text", "...">>)>>
            /\ contextId' = data.context_id
            /\ sessionIdEl' = updateSessionIndicator(data.context_id)
            /\ refreshAnalysis(data.analysis)

UploadResponse ==
    \E r \in inflight, data \in UploadResponses :
        /\ r.kind = "upload"
        /\ inflight' = inflight \ {r}
        /\ uploadApply(data)
        /\ ev' = [kind |-> "uploadResponse", id |-> r.id, data |-> data]
        /\ UNCHANGED <<phase, nextReq, indicators, history, aside>>

\* catch (err) of handlePDFUpload
uploadCatch(r) ==
    /\ surfaced' = <<Bot(<<"Upload failed.">>)>>
    /\ UNCHANGED <<session, held, panels, indicators>>

UploadFailure ==
    \E r \in inflight :
        /\ r.kind = "upload"
        /\ inflight' = inflight \ {r}
        /\ uploadCatch(r)
        /\ ev' = [kind |-> "uploadFailure", id |-> r.id]
        /\ UNCHANGED <<phase, nextReq, history, aside>>

\* ---------------------------------------------------------------- analyze
\* POST /analyze bodies: {analysis}, {error}, or neither
AnalyzeResponses ==
    [error : ServerErrors, analysis : {Undefined}]
    \cup
    [error : {NoError}, analysis : {Undefined} \cup Analyses]

\* a handler without the session check: it goes on to the request
analyzeNoSession_Sends ==
    /\ nextReq < MaxReq
    /\ nextReq' = nextReq + 1
    /\ surfaced' = <<Bot(<<"Analyzing case...">>)>>
    /\ indicators' = indicators \cup {nextReq + 1}
    /\ inflight' = inflight \cup
           {[id |-> nextReq + 1, kind |-> "analyze", body |-> [context_id |-> contextId]]}

\* if (!contextId) { appendMessage(...); return; }
analyzeNoSession ==
    /\ surfaced' = <<Bot(<<"Please upload a PDF or describe your case first.">>)>>
    /\ UNCHANGED <<inflight, nextReq, indicators>>

\* the handler up to await fetch('/analyze')
analyzeSend ==
    /\ nextReq < MaxReq
    /\ nextReq' = nextReq + 1
    /\ surfaced' = <<Bot(<<"Analyzing case...">>)>>
    /\ indicators' = indicators \cup {nextReq + 1}
    /\ inflight' = inflight \cup
           {[id |-> nextReq + 1, kind |-> "analyze", body |-> [context_id |-> contextId]]}

handleAnalyze ==
    /\ phase = "ready"
    /\ IF ~Truthy(contextId) THEN analyzeNoSession ELSE analyzeSend
    /\ ev' = [kind |-> "analyzeClick"]
    /\ UNCHANGED <<phase, session, held, panels, history, aside>>

\* an analyze response handled as a results response: it ends the
\* clarification in progress
analyzeApply_AsResults(data) ==
    /\ clarifyMode' = FALSE
    /\ clarifyAttempts' = 0
    /\ UNCHANGED <<clarificationAnswers, contextId, currentCases, currentDraftText,
                   sessionIdEl, casesPanel, draftContent, draftDownloadBtn>>
    /\ IF Truthy(data.analysis)
       THEN /\ currentAnalysis' = data.analysis
            /\ analysisPanel' = updateAnalysisPanel(data.analysis)
            /\ surfaced' = <<Bot(<<"Analysis complete! Check the Analysis panel.">>)>>
       ELSE /\ surfaced' = <<>>
            /\ UNCHANGED <<currentAnalysis, analysisPanel>>

\* the try block after both awaits
analyzeApply(data) ==
    /\ UNCHANGED <<session, currentCases, currentDraftText, sessionIdEl, casesPanel,
                   draftContent, draftDownloadBtn>>
    /\ IF Truthy(data.error)
       THEN /\ surfaced' = <<Bot(<<"Error: ", data.error>>)>>
            /\ UNCHANGED <<currentAnalysis, analysisPanel>>
       ELSE IF Truthy(data.analysis)
       THEN /\ currentAnalysis' = data.analysis
            /\ analysisPanel' = updateAnalysisPanel(data.analysis)
            /\ surfaced' = <<Bot(<<"Analysis complete! Check the Analysis panel.">>)>>
       ELSE /\ surfaced' = <<>>
            /\ UNCHANGED <<currentAnalysis, analysisPanel>>

AnalyzeResponse ==
    \E r \in inflight, data \in AnalyzeResponses :
        /\ r.kind = "analyze"
        /\ inflight' = inflight \ {r}
        /\ analyzeApply(data)
        /\ ev' = [kind |-> "analyzeResponse", id |-> r.id, data |-> data]
        /\ UNCHANGED <<phase, nextReq, indicators, history, aside>>

\* catch (err) of handleAnalyze
analyzeCatch(r) ==
    /\ surfaced' = <<Bot(<<"Analysis failed.">>)>>
    /\ UNCHANGED <<session, held, panels, indicators>>

AnalyzeFailure ==
    \E r \in inflight :
        /\ r.kind = "analyze"
        /\ inflight' = inflight \ {r}
        /\ analyzeCatch(r)
        /\ ev' = [kind |-> "analyzeFailure", id |-> r.id]
        /\ UNCHANGED <<phase, nextReq, history, aside>>

\* ------------------------------------------------------- draft generation
\* POST /draft bodies: {document}, {error}, or neither (document <<>> stands
\* for an absent or empty document, both falsy)
DraftResponses ==
    [error : ServerErrors, document : {<<>>}]
    \cup
    [error : {NoError}, document : {<<>>} \cup DraftDocs]

\* if (!contextId) { appendMessage(...); return; }
draftNoSession ==
    /\ surfaced' = <<Bot(<<"Please upload a PDF or describe your case first.">>)>>
    /\ UNCHANGED <<inflight, nextReq, draftContent, draftDownloadBtn>>

\* the handler up to await fetch('/draft')
draftSend(docType) ==
    /\ nextReq < MaxReq
    /\ nextReq' = nextReq + 1
    /\ surfaced' = <<>>
    /\ draftContent' = [kind |-> "generating", text |-> <<>>]
    /\ draftDownloadBtn' = "none"
    /\ inflight' = inflight \cup
           {[id |-> nextReq + 1, kind |-> "draft",
             body |-> [context_id |-> contextId, doc_type |-> docType]]}

handleDraftGenerate ==
    \E docType \in DocTypes :
        /\ phase = "ready"
        /\ IF ~Truthy(contextId) THEN draftNoSession ELSE draftSend(docType)
        /\ ev' = [kind |-> "draftClick", docType |-> docType]
        /\ UNCHANGED <<phase, session, held, sessionIdEl, analysisPanel, casesPanel,
                       indicators, history, aside>>

\* the try block after both awaits
draftApply(r, data) ==
    /\ UNCHANGED <<session, currentAnalysis, currentCases, sessionIdEl,
                   analysisPanel, casesPanel>>
    /\ IF Truthy(data.error)
       THEN /\ draftContent' = [kind |-> "error", text |-> <<data.error>>]
            /\ surfaced' = <<>>
            /\ UNCHANGED <<currentDraftText, draftDownloadBtn>>
       ELSE IF data.document # <<>>
       THEN /\ currentDraftText' = data.document
            /\ draftContent' = displayDraft(data.document)
            /\ draftDownloadBtn' = "flex"
            /\ surfaced' = <<Bot(<<"Generated ", r.body.doc_type,
                                   "! Check the Draft panel.">>)>>
       ELSE /\ surfaced' = <<>>
            /\ UNCHANGED <<currentDraftText, draftContent, draftDownloadBtn>>

DraftResponse ==
    \E r \in inflight, data \in DraftResponses :
        /\ r.kind = "draft"
        /\ inflight' = inflight \ {r}
        /\ draftApply(r, data)
        /\ ev' = [kind |-> "draftResponse", id |-> r.id, data |-> data]
        /\ UNCHANGED <<phase, nextReq, indicators, history, aside>>

\* catch (err) of handleDraftGenerate
draftCatch(r) ==
    /\ draftContent' = [kind |-> "failed", text |-> <<>>]
    /\ surfaced' = <<>>
    /\ UNCHANGED <<session, held, sessionIdEl, analysisPanel, casesPanel,
                   draftDownloadBtn, indicators>>

DraftFailure ==
    \E r \in inflight :
        /\ r.kind = "draft"
        /\ inflight' = inflight \ {r}
        /\ draftCatch(r)
        /\ ev' = [kind |-> "draftFailure", id |-> r.id]
        /\ UNCHANGED <<phase, nextReq, history, aside>>

\* --------------------------------------------------------- draft download
\* a download that saves a file whether or not a draft is held
draftPdf_WithoutDraft(docType) ==
    [saved |-> TRUE,
     name |-> <<"legal-", docType, "-", "now", ".pdf">>,
     text |-> currentDraftText]

\* if (!currentDraftText) return; ... doc.save(`legal-${docType}-${Date.now()}.pdf`)
\* the file is built in the browser from the held draft text
draftPdf(docType) ==
    IF currentDraftText = <<>>
    THEN [saved |-> FALSE, name |-> <<>>, text |-> <<>>]
    ELSE [saved |-> TRUE,
          name |-> <<"legal-", docType, "-", "now", ".pdf">>,
          text |-> currentDraftText]

\* the click handler of the download button; it awaits nothing
handleDraftDownload ==
    \E docType \in DocTypes :
        /\ phase = "ready"
        /\ ev' = [kind |-> "downloadClick", docType |-> docType,
                  file |-> draftPdf(docType)]
        /\ surfaced' = <<>>
        /\ UNCHANGED <<phase, session, held, panels, inflight, nextReq, indicators,
                       history, aside>>

\* ------------------------------------------------- draft text, line by line
\* A draft text is its lines (docText.split('\n')), a line its characters.
Stars == <<"*", "*">>

startsWith(s, p) == Len(s) >= Len(p) /\ SubSeq(s, 1, Len(p)) = p

endsWith(s, p) == Len(s) >= Len(p) /\ SubSeq(s, Len(s) - Len(p) + 1, Len(s)) = p

dropFirst(s, n) == SubSeq(s, n + 1, Len(s))

\* trimmed.startsWith('**') && trimmed.endsWith('**')
isSectionHeader(trimmed) == startsWith(trimmed, Stars) /\ endsWith(trimmed, Stars)

\* s.replace(/\*\*/g, '')
RECURSIVE removeBoldMarkers(_)
removeBoldMarkers(s) ==
    IF s = <<>> THEN <<>>
    ELSE IF startsWith(s, Stars) THEN removeBoldMarkers(dropFirst(s, 2))
    ELSE <<Head(s)>> \o removeBoldMarkers(Tail(s))

\* const title = trimmed.replace(/\*\*/g, '').trim()
headerTitle(trimmed) == Trim(removeBoldMarkers(trimmed))

IsDigit(c) == c \in {"0", "1", "2", "3", "4", "5", "6", "7", "8", "9"}

\* the number of whitespace characters, of digits, from position i on
RECURSIVE spacesAt(_, _)
spacesAt(s, i) == IF i <= Len(s) /\ IsSpace(s[i]) THEN 1 + spacesAt(s, i + 1) ELSE 0

RECURSIVE digitsAt(_, _)
digitsAt(s, i) == IF i <= Len(s) /\ IsDigit(s[i]) THEN 1 + digitsAt(s, i + 1) ELSE 0

\* the length of the match of /^[-*]\s+/, 0 without a match
bulletMatch(s) ==
    IF Len(s) >= 2 /\ s[1] \in {"-", "*"} /\ IsSpace(s[2]) THEN 1 + spacesAt(s, 2) ELSE 0

\* the length of the match of /^\d+\.\s+/, 0 without a match
numberMatch(s) ==
    LET d == digitsAt(s, 1)
    IN  IF d >= 1 /\ Len(s) >= d + 2 /\ s[d + 1] = "." /\ IsSpace(s[d + 2])
        THEN d + 1 + spacesAt(s, d + 2) ELSE 0

\* escapeHtml(text): textContent read back as innerHTML
escapeChar(c) ==
    CASE c = "&" -> "&amp;"
      [] c = "<" -> "&lt;"
      [] c = ">" -> "&gt;"
      [] OTHER -> c

escapeHtml(text) == [i \in 1..Len(text) |-> escapeChar(text[i])]

\* the least j >= i with s[j] s[j+1] = "**", 0 when there is none
RECURSIVE starsFrom(_, _)
starsFrom(s, i) ==
    IF i + 1 > Len(s) THEN 0
    ELSE IF s[i] = "*" /\ s[i + 1] = "*" THEN i ELSE starsFrom(s, i + 1)

\* s.replace(/\*\*(.+?)\*\*/g, '<strong>$1</strong>')
RECURSIVE bold(_)
bold(s) ==
    IF s = <<>> THEN <<>>
    ELSE IF startsWith(s, Stars) /\ starsFrom(s, 4) > 0
    THEN LET j == starsFrom(s, 4)
         IN  <<"<strong>">> \o SubSeq(s, 3, j - 1) \o <<"</strong>">>
             \o bold(dropFirst(s, j + 1))
    ELSE <<Head(s)>> \o bold(Tail(s))

\* the least j >= k with s[j] = "*", 0 when there is none
RECURSIVE starFrom(_, _)
starFrom(s, k) ==
    IF k > Len(s) THEN 0 ELSE IF s[k] = "*" THEN k ELSE starFrom(s, k + 1)

\* where ([^*]+?)\*(?!\*) ends for a content that starts at k, 0 without a match
italicClose(s, k) ==
    LET j == starFrom(s, k)
    IN  IF j > k /\ (j = Len(s) \/ s[j + 1] # "*") THEN j ELSE 0

\* s.replace(/(?<!\*)\*([^*]+?)\*(?!\*)/g, '<em>$1</em>'), from position i on
RECURSIVE italic(_, _)
italic(s, i) ==
    IF i > Len(s) THEN <<>>
    ELSE IF s[i] = "*" /\ (i = 1 \/ s[i - 1] # "*") /\ italicClose(s, i + 1) > 0
    THEN LET j == italicClose(s, i + 1)
         IN  <<"<em>">> \o SubSeq(s, i + 1, j - 1) \o <<"</em>">> \o italic(s, j + 1)
    ELSE <<s[i]>> \o italic(s, i + 1)

\* processedLine: bold first, then italic on the result
processedLine(trimmed) == italic(bold(trimmed), 1)

\* a join that puts nothing between the parts
RECURSIVE join_NoSeparator(_)
join_NoSeparator(parts) ==
    IF parts = <<>> THEN <<>> ELSE parts[1] \o join_NoSeparator(Tail(parts))

\* currentParagraph.join(' ')
RECURSIVE join(_)
join(parts) ==
    IF parts = <<>> THEN <<>>
    ELSE IF Len(parts) = 1 THEN parts[1]
    ELSE parts[1] \o <<" ">> \o join(Tail(parts))

\* ----------------------------------------------------------- displayDraft
\* html is kept as the sequence of pieces appended to it: an element with
\* its innerHTML, or the opening or closing tag of a list
El(tag, inner) == [tag |-> tag, inner |-> inner]

CloseTag(listType) == IF listType = "ul" THEN "/ul" ELSE "/ol"

\* let html = '<div class="draft-document">'; currentParagraph = []; listType = null
displayDraftStart ==
    [at |-> "lines", idx |-> 1, html |-> <<El("div", <<>>)>>,
     currentParagraph |-> <<>>, listType |-> Null]

\* if (currentParagraph.length > 0) { html += `<p>...</p>`; currentParagraph = [] }
closeParagraph(s) ==
    IF Len(s.currentParagraph) > 0
    THEN [s EXCEPT !.html = Append(@, El("p", join(s.currentParagraph))),
                   !.currentParagraph = <<>>]
    ELSE s

\* a list end that forgets the closing tag
closeList_NoClosingTag(s) == [s EXCEPT !.listType = Null]

\* if (listType) { html += `</${listType}>`; listType = null }
closeList(s) ==
    IF s.listType # Null
    THEN [s EXCEPT !.html = Append(@, El(CloseTag(s.listType), <<>>)),
                   !.listType = Null]
    ELSE s

\* a list item that continues whatever list is open
listItem_ContinuesAnyList(s, kind, trimmed, matched) ==
    LET s1 == closeParagraph(s)
        s2 == IF s1.listType = Null
              THEN [s1 EXCEPT !.html = Append(@, El(kind, <<>>)),
                              !.listType = kind]
              ELSE s1
    IN  [s2 EXCEPT !.html = Append(@, El("li", escapeHtml(dropFirst(trimmed, matched))))]

\* a list item that keeps its marker
listItem_KeepsMarker(s, kind, trimmed, matched) ==
    LET s1 == closeParagraph(s)
        s2 == IF s1.listType # kind
              THEN [closeList(s1) EXCEPT !.html = Append(@, El(kind, <<>>)),
                                         !.listType = kind]
              ELSE s1
    IN  [s2 EXCEPT !.html = Append(@, El("li", escapeHtml(trimmed)))]

\* the two list branches: close the paragraph, switch the list when its kind
\* differs, append the item without its marker
listItem(s, kind, trimmed, matched) ==
    LET s1 == closeParagraph(s)
        s2 == IF s1.listType # kind
              THEN [closeList(s1) EXCEPT !.html = Append(@, El(kind, <<>>)),
                                         !.listType = kind]
              ELSE s1
    IN  [s2 EXCEPT !.html = Append(@, El("li", escapeHtml(dropFirst(trimmed, matched))))]

\* one call of the lines.forEach callback
displayDraftLine(s, line) ==
    LET trimmed == Trim(line)
    IN  IF isSectionHeader(trimmed)
        THEN [closeList(closeParagraph(s)) EXCEPT
                 !.html = Append(@, El("h3", escapeHtml(headerTitle(trimmed))))]
        ELSE IF bulletMatch(trimmed) > 0
        THEN listItem(s, "ul", trimmed, bulletMatch(trimmed))
        ELSE IF numberMatch(trimmed) > 0
        THEN listItem(s, "ol", trimmed, numberMatch(trimmed))
        ELSE IF trimmed = <<>>
        THEN closeList(closeParagraph(s))
        ELSE [closeList(s) EXCEPT
                 !.currentParagraph = Append(@, processedLine(trimmed))]

\* after the loop: close what is open, html += '</div>'
displayDraftEnd(s) ==
    [closeList(closeParagraph(s)) EXCEPT !.html = Append(@, El("/div", <<>>)),
                                         !.at = "done"]

\* ---------------------------------------------------- handleDraftDownload
margin == 20
lineHeight == 7
pageHeight == 297           \* new jsPDF(): A4 portrait, in mm
WrapChars == 6              \* characters of the 12 pt font that fit maxWidth

\* y is kept in halves of a unit, lineHeight / 2 being no integer
Halves(n) == 2 * n

\* doc.splitTextToSize(trimmed, maxWidth): the text cut into pieces that fit
RECURSIVE splitTextToSize(_, _)
splitTextToSize(text, maxWidth) ==
    IF Len(text) <= maxWidth THEN <<text>>
    ELSE <<SubSeq(text, 1, maxWidth)>> \o splitTextToSize(dropFirst(text, maxWidth), maxWidth)

\* let y = margin; the document starts with one page
paginateStart == [at |-> "lines", idx |-> 1, y |-> Halves(margin), pages |-> 1, out |-> <<>>]

\* a page check against the bottom edge instead of the reserve above it
newPageIfBelow_PageEdge(p, reserve) ==
    IF p.y > Halves(pageHeight)
    THEN [p EXCEPT !.pages = @ + 1, !.y = Halves(margin)]
    ELSE p

\* if (y > pageHeight - reserve) { doc.addPage(); y = margin; }
newPageIfBelow(p, reserve) ==
    IF p.y > Halves(pageHeight - reserve)
    THEN [p EXCEPT !.pages = @ + 1, !.y = Halves(margin)]
    ELSE p

\* a render that advances by one line height whatever was rendered
renderText_FlatAdvance(p, role, str, advance) ==
    [p EXCEPT !.out = Append(@, [role |-> role, text |-> str, line |-> p.idx,
                                 y |-> p.y, page |-> p.pages]),
              !.y = @ + Halves(lineHeight)]

\* doc.text(text, margin, y); y += advance
renderText(p, role, str, advance) ==
    [p EXCEPT !.out = Append(@, [role |-> role, text |-> str, line |-> p.idx,
                                 y |-> p.y, page |-> p.pages]),
              !.y = @ + advance]

\* splitLines.forEach(...)
RECURSIVE splitLinesForEach(_, _)
splitLinesForEach(p, splitLines) ==
    IF splitLines = <<>> THEN p
    ELSE splitLinesForEach(
             renderText(newPageIfBelow(p, 20), "body", Head(splitLines), Halves(lineHeight)),
             Tail(splitLines))

\* a loop body whose blank line checks for the page end as well
paginateLine_BlankChecksPage(p, line) ==
    LET trimmed == Trim(line)
    IN  IF isSectionHeader(trimmed)
        THEN renderText(newPageIfBelow(p, 30), "heading", headerTitle(trimmed),
                        Halves(lineHeight + 3))
        ELSE IF trimmed = <<>>
        THEN [newPageIfBelow(p, 20) EXCEPT !.y = @ + lineHeight]
        ELSE splitLinesForEach(newPageIfBelow(p, 20),
                               splitTextToSize(trimmed, WrapChars))

\* one call of the lines.forEach callback
paginateLine(p, line) ==
    LET trimmed == Trim(line)
    IN  IF isSectionHeader(trimmed)
        THEN renderText(newPageIfBelow(p, 30), "heading", headerTitle(trimmed),
                        Halves(lineHeight + 3))
        ELSE IF trimmed = <<>>
        THEN [p EXCEPT !.y = @ + lineHeight]
        ELSE splitLinesForEach(newPageIfBelow(p, 20),
                               splitTextToSize(trimmed, WrapChars))

\* ---------------------------------------------------------- specification
Next ==
    \/ DOMContentLoaded
    \/ LoadContextResponse
    \/ LoadContextFailure
    \/ handleChatSubmit
    \/ ChatResponse
    \/ ChatFailure
    \/ handlePDFUpload
    \/ UploadResponse
    \/ UploadFailure
    \/ handleAnalyze
    \/ AnalyzeResponse
    \/ AnalyzeFailure
    \/ handleDraftGenerate
    \/ DraftResponse
    \/ DraftFailure
    \/ handleDraftDownload

Spec == Init /\ [][Next]_vars

\* ------------------------------------------------------------ draft texts
MaxLines == 2               \* lines of the drafts built from DraftLines

DraftLines ==
    { <<"*", "*", "T", "*", "*">>,
      <<>>,
      <<"-", " ", "a", "<">>,
      <<"1", ".", " ", "x">>,
      <<" ", "b", " ", "c", " ">>,
      <<"*", "*", "a", "*", "*", " ", "a", "n", "d", " ", "*", "*", "b", "*", "*">>,
      <<"a", " ", "*", "*", "b", "*", "*", " ", "*", "e", "*">> }

\* "**Intro**\nHello world.\n\n- a\n- b\n1. x"
IntroDraft ==
    << <<"*", "*", "I", "n", "t", "r", "o", "*", "*">>,
       <<"H", "e", "l", "l", "o", " ", "w", "o", "r", "l", "d", ".">>,
       <<>>,
       <<"-", " ", "a">>,
       <<"-", " ", "b">>,
       <<"1", ".", " ", "x">> >>

\* n body lines that fill most of the first page
BodyLines(n) == [i \in 1..n |-> <<"x">>]

ShortDrafts == UNION {[1..k -> DraftLines] : k \in 1..MaxLines}

\* the drafts a /draft response delivers: data.document is truthy, so the
\* text is never the empty string
DraftTexts ==
    (ShortDrafts \ {<< <<>> >>})
    \cup {BodyLines(n) \o <<l>> : n \in {35, 36, 37}, l \in DraftLines}
    \cup {IntroDraft}

client == <<phase, session, held, panels, inflight, nextReq, indicators, surfaced,
            ev, history>>

\* displayDraft(data.document) is entered with the draft text
DraftInit ==
    /\ InitClient
    /\ doc \in {[at |-> "draft", lines |-> t] : t \in DraftTexts}
    /\ st = displayDraftStart
    /\ pg = Idle
    /\ cp = Idle

displayDraftStep ==
    /\ st.at = "lines"
    /\ st.idx <= Len(doc.lines)
    /\ st' = [displayDraftLine(st, doc.lines[st.idx]) EXCEPT !.idx = @ + 1]
    /\ UNCHANGED <<doc, pg, cp, client>>

displayDraftFinish ==
    /\ st.at = "lines"
    /\ st.idx > Len(doc.lines)
    /\ st' = displayDraftEnd(st)
    /\ UNCHANGED <<doc, pg, cp, client>>

\* the download button is clicked once the draft is on screen
paginateBegin ==
    /\ st.at = "done"
    /\ pg = Idle
    /\ pg' = paginateStart
    /\ UNCHANGED <<doc, st, cp, client>>

paginateStep ==
    /\ pg.at = "lines"
    /\ pg.idx <= Len(doc.lines)
    /\ pg' = [paginateLine(pg, doc.lines[pg.idx]) EXCEPT !.idx = @ + 1]
    /\ UNCHANGED <<doc, st, cp, client>>

\* doc.save(...)
paginateSave ==
    /\ pg.at = "lines"
    /\ pg.idx > Len(doc.lines)
    /\ pg' = [pg EXCEPT !.at = "saved"]
    /\ UNCHANGED <<doc, st, cp, client>>

DraftNext ==
    \/ displayDraftStep
    \/ displayDraftFinish
    \/ paginateBegin
    \/ paginateStep
    \/ paginateSave

DraftSpec == DraftInit /\ [][DraftNext]_vars

\* ------------------------------------------------------- updateCasesPanel
MaxCases == 2               \* cases of one results response

\* a CaseResult as the backend sends it; <<>> stands for a field that is
\* absent or empty (both falsy)
Scores == {<<>>, <<0>>, <<39>>, <<40>>, <<69>>, <<70>>, <<85>>}

CaseResults ==
    [title : {<<>>, <<"D", "&", "R">>}, citation : {<<>>}, relevance_score : Scores,
     relevance_reason : {<<>>}, snippet : {<<>>}, pdf_link : {<<>>}]
    \cup
    [title : {<<"D", "&", "R">>}, citation : {<<"1", " ", "F">>},
     relevance_score : Scores, relevance_reason : {<<"o", "n">>},
     snippet : {<<"s", "<", "n">>}, pdf_link : {<<"http://x">>}]

CaseResultLists == UNION {[1..k -> CaseResults] : k \in 0..MaxCases}

Div(class, inner) == [class |-> class, inner |-> inner]

OrElse(value, default) == IF value = <<>> THEN default ELSE value

\* c.snippet.substring(0, 200)
substring200(s) == SubSeq(s, 1, IF Len(s) < 200 THEN Len(s) ELSE 200)

\* an item that prints the score field as it came
caseItem_RawScore(c) ==
    <<Div("case-title", escapeHtml(OrElse(c.title, <<"Untitled">>)))>>
    \o <<Div("relevance-score",
             <<"Relevance: ",
               IF c.relevance_score = <<>> THEN "undefined" ELSE ToString(c.relevance_score[1]),
               "%">>)>>

\* the template of one case: the optional parts only when their field is truthy
caseItem(c) ==
    <<Div("case-title", escapeHtml(OrElse(c.title, <<"Untitled">>)))>>
    \o (IF c.citation # <<>> THEN <<Div("case-citation", escapeHtml(c.citation))>> ELSE <<>>)
    \o <<Div("relevance-score",
             <<"Relevance: ",
               ToString(IF c.relevance_score = <<>> THEN 0 ELSE c.relevance_score[1]),
               "%">>)>>
    \o (IF c.relevance_reason # <<>>
        THEN <<Div("relevance-reason", escapeHtml(c.relevance_reason))>> ELSE <<>>)
    \o (IF c.snippet # <<>>
        THEN <<Div("case-snippet", escapeHtml(substring200(c.snippet)) \o <<"...">>)>>
        ELSE <<>>)
    \o (IF c.pdf_link # <<>> THEN <<Div("case-link", c.pdf_link)>> ELSE <<>>)

\* updateCasesPanel(cases) is entered with the cases of a response
CasesInit ==
    /\ InitClient
    /\ cp \in {[at |-> "entered", idx |-> 1, cases |-> cs, html |-> <<>>] :
                   cs \in CaseResultLists}
    /\ doc = Idle
    /\ st = Idle
    /\ pg = Idle

\* if (!cases || cases.length === 0) { content.innerHTML = '<p class="empty-state">...'; return; }
casesEmpty ==
    /\ cp.at = "entered"
    /\ Len(cp.cases) = 0
    /\ cp' = [cp EXCEPT !.at = "rendered", !.html = <<<<Div("empty-state", <<>>)>>>>]
    /\ UNCHANGED <<doc, st, pg, client>>

\* one call of the cases.forEach callback
casesForEach ==
    /\ cp.at \in {"entered", "forEach"}
    /\ cp.idx <= Len(cp.cases)
    /\ cp' = [cp EXCEPT !.at = "forEach", !.idx = @ + 1,
                        !.html = Append(@, caseItem(cp.cases[cp.idx]))]
    /\ UNCHANGED <<doc, st, pg, client>>

\* content.innerHTML = html
casesDone ==
    /\ cp.at = "forEach"
    /\ cp.idx > Len(cp.cases)
    /\ cp' = [cp EXCEPT !.at = "rendered"]
    /\ UNCHANGED <<doc, st, pg, client>>

CasesNext ==
    \/ casesEmpty
    \/ casesForEach
    \/ casesDone

CasesSpec == CasesInit /\ [][CasesNext]_vars

\* ==================================================================
\* The alternative chat client (src/unnamed/part_001): same four session
\* globals, the clarified flag in place of the message while clarifying
\* ==================================================================
\* let clarifyMode = false; clarificationAnswers = []; clarifyAttempts = 0;
\* contextId = null; the handlers are registered when the script is loaded
VariantInit == Init

RefineInputs == {<<>>, <<"m">>}     \* what prompt() returns: nothing or a text

\* const body = clarifyMode ? { clarified: true, ... } : { message, ... }
VariantChatBody(message) ==
    IF clarifyMode
    THEN [clarified |-> TRUE,
          clarification_answers |-> clarificationAnswers,
          clarify_attempts |-> clarifyAttempts,
          context_id |-> contextId]
    ELSE [message |-> message,
          clarify_attempts |-> clarifyAttempts,
          context_id |-> contextId]

\* the submit handler up to await fetch('/chat')
VariantChatSubmit ==
    \E text \in ChatInputs :
        /\ IF Trim(text) = <<>>
           THEN /\ surfaced' = <<>>
                /\ UNCHANGED <<inflight, nextReq, indicators>>
           ELSE /\ nextReq < MaxReq
                /\ nextReq' = nextReq + 1
                /\ surfaced' = <<User(Trim(text)), Bot(<<"Thinking...">>)>>
                /\ indicators' = indicators \cup {nextReq + 1}
                /\ inflight' = inflight \cup
                       {[id |-> nextReq + 1, kind |-> "chat",
                         body |-> VariantChatBody(Trim(text))]}
        /\ ev' = [kind |-> "variantSubmit", text |-> text, clarifying |-> clarifyMode]
        /\ UNCHANGED <<phase, session, held, panels, history, aside>>

\* POST /chat bodies as this client reads them
VariantChatResponses ==
    [status : {"clarifying"}, clarify_attempts : 0..MaxServerAttempts,
     context_id : {Undefined} \cup Ids, has_questions : BOOLEAN]
    \cup
    [status : {"results"}, context_id : {Undefined} \cup Ids, has_cases : BOOLEAN,
     cases : {<<"k1">>}]
    \cup
    [status : {"error"}, message : ServerErrors]
    \cup
    [status : {"unknown"}]

VariantReqs(kind) == {r \in inflight : r.kind = kind}

\* if (data.status === 'clarifying') { ... return; }
\* data.questions.forEach throws when questions is absent, after the session
\* was written; the catch block then reports the server error
variantClarifying(data) ==
    /\ clarifyMode' = TRUE
    /\ clarifyAttempts' = data.clarify_attempts
    /\ contextId' = data.context_id
    /\ clarificationAnswers' = <<>>
    /\ surfaced' = <<Bot(<<"<b>Please clarify:</b>">>)>> \o
           (IF data.has_questions
            THEN <<Bot(<<Questions[1]>>), Bot(<<Questions[2]>>)>>
            ELSE <<Bot(<<"Server error.">>)>>)

\* the message of one case
caseMessage(c) == Bot(<<"<b>", c, "</b>">>)

\* if (data.status === 'results') { ... return; }
variantResults(data) ==
    /\ clarifyMode' = FALSE
    /\ clarifyAttempts' = 0
    /\ clarificationAnswers' = <<>>
    /\ contextId' = data.context_id
    /\ surfaced' = <<Bot(<<"<b>Search query:</b> ">>)>> \o
           (IF data.has_cases
            THEN [i \in 1..Len(data.cases) |-> caseMessage(data.cases[i])] \o
                 <<Bot(<<"You can add more information to refine the search.">>)>>
            ELSE <<Bot(<<"Server error.">>)>>)

\* the submit handler from `const data = await res.json()` on
VariantChatResponse ==
    \E r \in VariantReqs("chat"), data \in VariantChatResponses :
        /\ inflight' = inflight \ {r}
        /\ indicators' = indicators \ {r.id}
        /\ CASE data.status = "clarifying" -> variantClarifying(data)
             [] data.status = "results" -> variantResults(data)
             [] data.status = "error" ->
                    /\ surfaced' = <<Bot(<<data.message>>)>>
                    /\ UNCHANGED session
             [] OTHER ->
                    /\ surfaced' = <<>>
                    /\ UNCHANGED session
        /\ ev' = [kind |-> "variantResponse", id |-> r.id, data |-> data]
        /\ UNCHANGED <<phase, nextReq, held, panels, history, aside>>

\* catch (err) { thinking.remove(); appendMessage('bot', 'Server error.') }
VariantChatFailure ==
    \E r \in VariantReqs("chat") :
        /\ inflight' = inflight \ {r}
        /\ indicators' = indicators \ {r.id}
        /\ surfaced' = <<Bot(<<"Server error.">>)>>
        /\ ev' = [kind |-> "variantFailure", id |-> r.id]
        /\ UNCHANGED <<phase, nextReq, session, held, panels, history, aside>>

\* the refine button: prompt(), then POST /chat with adding_info
VariantRefineClick ==
    \E extra \in RefineInputs :
        /\ IF extra = <<>>
           THEN /\ surfaced' = <<>>
                /\ UNCHANGED <<inflight, nextReq, indicators>>
           ELSE /\ nextReq < MaxReq
                /\ nextReq' = nextReq + 1
                /\ surfaced' = <<User(extra), Bot(<<"Refining search...">>)>>
                /\ indicators' = indicators \cup {nextReq + 1}
                /\ inflight' = inflight \cup
                       {[id |-> nextReq + 1, kind |-> "refine",
                         body |-> [message |-> extra, adding_info |-> TRUE,
                                   context_id |-> contextId]]}
        /\ ev' = [kind |-> "refineClick", text |-> extra]
        /\ UNCHANGED <<phase, session, held, panels, history, aside>>

\* the refine handler after its fetch: only a results body shows anything
VariantRefineResponse ==
    \E r \in VariantReqs("refine"), data \in VariantChatResponses :
        /\ inflight' = inflight \ {r}
        /\ indicators' = indicators \ {r.id}
        /\ surfaced' = IF data.status = "results"
                       THEN <<Bot(<<"<b>Refined results:</b>">>)>> \o
                            (IF data.has_cases
                             THEN [i \in 1..Len(data.cases) |-> caseMessage(data.cases[i])]
                             ELSE <<>>)
                       ELSE <<>>
        /\ ev' = [kind |-> "refineResponse", id |-> r.id, data |-> data]
        /\ UNCHANGED <<phase, nextReq, session, held, panels, history, aside>>

\* the refine handler has no catch: a rejected fetch leaves its bubble
VariantRefineFailure ==
    \E r \in VariantReqs("refine") :
        /\ inflight' = inflight \ {r}
        /\ surfaced' = <<>>
        /\ ev' = [kind |-> "refineFailure", id |-> r.id]
        /\ UNCHANGED <<phase, nextReq, indicators, session, held, panels, history, aside>>

\* pdfInput change: if (!pdfInput.files.length) return; POST /upload
VariantUploadChange ==
    \E files \in {<<>>} \cup {<<f>> : f \in FileNames} :
        /\ IF files = <<>>
           THEN /\ surfaced' = <<>>
                /\ UNCHANGED <<inflight, nextReq>>
           ELSE /\ nextReq < MaxReq
                /\ nextReq' = nextReq + 1
                /\ surfaced' = <<Bot(<<"Uploading <b>", files[1], "</b>...">>)>>
                /\ inflight' = inflight \cup
                       {[id |-> nextReq + 1, kind |-> "upload", body |-> files[1]]}
        /\ ev' = [kind |-> "uploadChange", files |-> files]
        /\ UNCHANGED <<phase, indicators, session, held, panels, history, aside>>

\* the upload handler after its fetch, or its catch block
VariantUploadResponse ==
    \E r \in VariantReqs("upload"), ok \in BOOLEAN :
        /\ inflight' = inflight \ {r}
        /\ surfaced' = IF ok
                       THEN <<Bot(<<"Uploaded: <b>", r.body, "</b>">>),
                              Bot(<<"<i>Extracted preview:</i><br>">>)>>
                       ELSE <<Bot(<<"Upload failed.">>)>>
        /\ ev' = [kind |-> "uploadResponse", id |-> r.id, ok |-> ok]
        /\ UNCHANGED <<phase, nextReq, indicators, session, held, panels, history, aside>>

VariantNext ==
    \/ VariantChatSubmit
    \/ VariantChatResponse
    \/ VariantChatFailure
    \/ VariantRefineClick
    \/ VariantRefineResponse
    \/ VariantRefineFailure
    \/ VariantUploadChange
    \/ VariantUploadResponse

VariantSpec == VariantInit /\ [][VariantNext]_vars

\* ==================================================================
\* Properties
\* ==================================================================
IsChatResponse(e, status) == e.kind = "chatResponse" /\ e.data.status = status

\* a chat response that writes clarifyMode, clarifyAttempts and contextId
WritesSession(e) == IsChatResponse(e, "clarifying") \/ IsChatResponse(e, "results")

\* C1: at most one /chat request is outstanding at any time.
C1_SingleFlightChat == Cardinality(ChatReqs) <= 1

\* C2: chat responses are applied in the order their requests were issued:
\* a response that writes the session never belongs to a request issued
\* before one whose response was applied already.
C2_ResponsesAppliedInIssueOrder ==
    [][WritesSession(ev') => ev'.id > lastApplied]_vars

\* C3: clarifyAttempts becomes 0 on every results response, becomes the
\* server-provided clarify_attempts on every clarifying response, and is
\* left alone by every other step (submit, bootstrap, upload, analyze,
\* draft, error response, transport failure).
C3_AttemptsWrittenOnlyByChatResponse ==
    [][/\ IsChatResponse(ev', "results") => clarifyAttempts' = 0
       /\ IsChatResponse(ev', "clarifying") =>
              clarifyAttempts' = ev'.data.clarify_attempts
       /\ ~WritesSession(ev') => clarifyAttempts' = clarifyAttempts]_vars

\* C3 witness: a clarifying response has set a counter the client did not
\* hold before, to a value other than its successor
C3_Witness ==
    /\ IsChatResponse(ev, "clarifying")
    /\ clarifyAttempts = MaxServerAttempts
    /\ lastApplied = 1

\* C4 as stated: between a clarifying response and the next results
\* response (error responses and transport failures included) mode is
\* Clarifying if and only if attempts > 0; after a results response mode is
\* Idle and attempts is 0.
C4_ClarifyingIffAttemptsPositive ==
    /\ lastWrite.status = "clarifying" => (clarifyMode <=> clarifyAttempts > 0)
    /\ lastWrite.status = "results" => (~clarifyMode /\ clarifyAttempts = 0)

\* C4 as amended: between a clarifying response and the next results
\* response mode is Clarifying and attempts is the count that clarifying
\* response carried (so attempts > 0 exactly when that count is positive);
\* after a results response mode is Idle and attempts is 0.
C4_ClarifyingKeepsServerAttempts ==
    /\ lastWrite.status = "clarifying" =>
           (clarifyMode /\ clarifyAttempts = lastWrite.clarify_attempts)
    /\ lastWrite.status = "results" => (~clarifyMode /\ clarifyAttempts = 0)

\* C4 witness: a transport failure has ended a chat request while a
\* clarification with a positive count is in progress
C4_Witness ==
    /\ ev.kind = "chatFailure"
    /\ lastWrite.status = "clarifying"
    /\ clarifyMode
    /\ clarifyAttempts > 0

\* C5: an error response surfaces the server's message and leaves
\* clarifyAttempts, contextId and clarifyMode as they were; a transport
\* failure leaves them as they were too.
C5_ErrorKeepsSession ==
    [][/\ IsChatResponse(ev', "error") =>
              /\ surfaced' = <<Bot(<<ev'.data.message>>)>>
              /\ UNCHANGED <<clarifyAttempts, contextId, clarifyMode>>
       /\ ev'.kind = "chatFailure" =>
              UNCHANGED <<clarifyAttempts, contextId, clarifyMode>>]_vars

\* C5 witness: an error response was applied during a clarification, which
\* is still in progress
C5_Witness ==
    /\ IsChatResponse(ev, "error")
    /\ clarifyMode
    /\ clarifyAttempts > 0
    /\ contextId \in Ids

AllWhitespace(text) == \A i \in 1..Len(text) : text[i] \in {" ", "\t", "\n"}

\* C6: a submission whose text is empty after trimming issues no request,
\* changes no state and surfaces nothing; any other submission issues
\* exactly one /chat request, carrying the contextId and clarifyAttempts
\* held at that moment; the end of a chat request (response or failure)
\* issues none.
C6_OneRequestPerSubmission ==
    [][/\ (ev'.kind = "chatSubmit" /\ AllWhitespace(ev'.text)) =>
              /\ inflight' = inflight
              /\ surfaced' = <<>>
              /\ UNCHANGED <<session, held, panels, indicators, nextReq>>
       /\ (ev'.kind = "chatSubmit" /\ ~AllWhitespace(ev'.text)) =>
              \E r \in inflight' :
                  /\ r \notin inflight
                  /\ inflight' = inflight \cup {r}
                  /\ r.kind = "chat"
                  /\ r.body.message # <<>>
                  /\ r.body.context_id = contextId
                  /\ r.body.clarify_attempts = clarifyAttempts
       /\ ev'.kind \in {"chatResponse", "chatFailure"} =>
              (inflight' \subseteq inflight /\ nextReq' = nextReq)]_vars

\* C6 witness: a message was submitted in Clarifying mode and its request
\* is in flight with the session held then
C6_Witness ==
    /\ ev.kind = "chatSubmit"
    /\ clarifyMode
    /\ clarifyAttempts > 0
    /\ \E r \in ChatReqs :
           /\ r.id = nextReq
           /\ r.body.clarify_attempts = clarifyAttempts
           /\ r.body.context_id = contextId
           /\ contextId \in Ids

\* C7: a results response with cases makes them the held collection, in
\* the received order; one without cases surfaces "no results" and leaves
\* no earlier cases as the held collection or in the cases panel.
C7_ResultsReplaceCases ==
    [][IsChatResponse(ev', "results") =>
          IF Len(ev'.data.cases) > 0
          THEN /\ currentCases' = ev'.data.cases
               /\ casesPanel'.items = ev'.data.cases
          ELSE /\ \E i \in 1..Len(surfaced') :
                      surfaced'[i] = Bot(<<"No relevant cases found.">>)
               /\ currentCases' = <<>>
               /\ casesPanel'.items = <<>>]_vars

FailureKinds == {"chatFailure", "analyzeFailure", "uploadFailure", "draftFailure"}

\* C8: when a chat, analyze, upload or draft request ends in a network
\* failure, the in-progress indicator created for it is removed and exactly
\* one failure message is shown.
C8_FailureRemovesIndicator ==
    [][ev'.kind \in FailureKinds =>
          /\ ev'.id \notin indicators'
          /\ IF ev'.kind = "draftFailure"
             THEN draftContent'.kind = "failed" /\ surfaced' = <<>>
             ELSE Len(surfaced') = 1]_vars

NoSessionMessage == Bot(<<"Please upload a PDF or describe your case first.">>)

\* C9: with contextId null, the analyze and the draft handler issue no
\* request, surface a local message, and leave contextId, clarifyAttempts,
\* clarifyMode, the analysis, the cases and the draft unchanged.
C9_NoSessionNoRequest ==
    [][(ev'.kind \in {"analyzeClick", "draftClick"} /\ contextId = Null) =>
          /\ inflight' = inflight
          /\ nextReq' = nextReq
          /\ surfaced' = <<NoSessionMessage>>
          /\ UNCHANGED <<contextId, clarifyAttempts, clarifyMode, currentAnalysis,
                         currentCases, currentDraftText, draftContent>>]_vars

\* C9 witness: the analyze button was clicked with no session and only the
\* local message came of it
C9_Witness ==
    /\ ev.kind = "analyzeClick"
    /\ contextId = Null
    /\ inflight = {}
    /\ surfaced = <<NoSessionMessage>>

\* C10: applying an analyze response leaves contextId, clarifyAttempts,
\* clarifyMode, the cases and the draft text as they were; the held
\* analysis becomes the returned one when the response carries one (and no
\* error) and is left alone otherwise.
C10_AnalyzeWritesOnlyAnalysis ==
    [][ev'.kind = "analyzeResponse" =>
          /\ UNCHANGED <<contextId, clarifyAttempts, clarifyMode, currentCases,
                         currentDraftText>>
          /\ currentAnalysis' =
                 IF ev'.data.error = NoError /\ ev'.data.analysis \in Analyses
                 THEN ev'.data.analysis ELSE currentAnalysis]_vars

\* C10 witness: an analysis arrived with a chat request in flight and became
\* the held analysis, next to a session and cases held from before
C10_Witness ==
    /\ ev.kind = "analyzeResponse"
    /\ ev.data.analysis \in Analyses
    /\ currentAnalysis = ev.data.analysis
    /\ ChatReqs # {}
    /\ contextId \in Ids
    /\ currentCases # <<>>

\* a 2xx body without the fields its handler looks for
MalformedSuccess(e) ==
    \/ e.kind = "chatResponse" /\ e.data.status \notin {"clarifying", "results", "error"}
    \/ e.kind = "analyzeResponse" /\ e.data.error = NoError /\ e.data.analysis = Undefined
    \/ e.kind = "draftResponse" /\ e.data.error = NoError /\ e.data.document = <<>>

\* C11: a chat response with no recognised status, an analyze response
\* with neither analysis nor error and a draft response with neither
\* document nor error each surface an error, clear the in-progress
\* indicator of their request and leave the session unchanged.
C11_MalformedSuccessIsError ==
    [][MalformedSuccess(ev') =>
          /\ UNCHANGED session
          /\ IF ev'.kind = "draftResponse"
             THEN draftContent'.kind = "error"
             ELSE surfaced' # <<>> /\ ev'.id \notin indicators']_vars

\* the render instructions the step from p to q added
Printed(p, q) == SubSeq(q.out, Len(p.out) + 1, Len(q.out))

Reserve(role) == IF role = "heading" THEN 30 ELSE 20

PaginatorStepped == pg.at = "lines" /\ pg'.at = "lines" /\ pg'.idx = pg.idx + 1

\* C12: no body line is rendered at y > pageHeight - 20 and no heading at
\* y > pageHeight - 30; a line that finds the cursor beyond its threshold
\* is rendered at y = margin on a new page, any other line where the
\* cursor stands on the current page.
C12_NoRenderBelowReserve ==
    [][PaginatorStepped =>
          LET new == Printed(pg, pg')
          IN  /\ \A i \in 1..Len(new) :
                     /\ new[i].y <= Halves(pageHeight - Reserve(new[i].role))
                     /\ new[i].y >= Halves(margin)
              /\ new # <<>> =>
                     IF pg.y > Halves(pageHeight - Reserve(new[1].role))
                     THEN new[1].page = pg.pages + 1 /\ new[1].y = Halves(margin)
                     ELSE new[1].page = pg.pages /\ new[1].y = pg.y
              /\ \A i \in 2..Len(new) :
                     IF new[i - 1].y + Halves(lineHeight) > Halves(pageHeight - 20)
                     THEN new[i].page = new[i - 1].page + 1 /\ new[i].y = Halves(margin)
                     ELSE /\ new[i].page = new[i - 1].page
                          /\ new[i].y = new[i - 1].y + Halves(lineHeight)]_vars

\* C12 witness: the paginator is through a draft in which the second piece
\* of a wrapped body line found the cursor beyond the threshold and opened a
\* page
C12_Witness ==
    /\ pg.at = "saved"
    /\ \E i \in 2..Len(pg.out) :
           /\ pg.out[i].line = pg.out[i - 1].line
           /\ pg.out[i].page = pg.out[i - 1].page + 1
           /\ pg.out[i].y = Halves(margin)

\* what an element's innerHTML shows as text
Tags == {"<strong>", "</strong>", "<em>", "</em>"}

unescapeChar(c) ==
    CASE c = "&amp;" -> "&"
      [] c = "&lt;" -> "<"
      [] c = "&gt;" -> ">"
      [] OTHER -> c

textContent(inner) ==
    LET shown == SelectSeq(inner, LAMBDA c : c \notin Tags)
    IN  [i \in 1..Len(shown) |-> unescapeChar(shown[i])]

Item(heading, str) == [heading |-> heading, text |-> str]

\* the headings, paragraphs and list items of the panel, in order
panelContent(html) ==
    LET shown == SelectSeq(html, LAMBDA e : e.tag \in {"h3", "p", "li"})
    IN  [i \in 1..Len(shown) |-> Item(shown[i].tag = "h3", textContent(shown[i].inner))]

\* the headings and body lines of the PDF, in order; the pieces of a wrapped
\* line count as the one line they were cut from
RECURSIVE printedContent(_, _)
printedContent(out, acc) ==
    IF out = <<>> THEN [i \in 1..Len(acc) |-> Item(acc[i].heading, acc[i].text)]
    ELSE LET op == Head(out)
         IN  IF acc # <<>> /\ acc[Len(acc)].line = op.line
             THEN printedContent(Tail(out), [acc EXCEPT ![Len(acc)].text = @ \o op.text])
             ELSE printedContent(Tail(out),
                      Append(acc, [heading |-> op.role = "heading", text |-> op.text,
                                   line |-> op.line]))

\* C13: for the same draft text the panel and the PDF hold the same
\* sequence of headings, paragraphs and list items with the same text.
C13_PanelAndPdfSameContent ==
    (st.at = "done" /\ pg.at = "saved") =>
        panelContent(st.html) = printedContent(pg.out, <<>>)

Node(node, kind, str, items) ==
    [node |-> node, kind |-> kind, text |-> str, items |-> items]

\* the node sequence a piece sequence stands for
RECURSIVE htmlNodes(_, _)
htmlNodes(html, acc) ==
    IF html = <<>> THEN acc
    ELSE LET e == Head(html)
             rest == Tail(html)
         IN  CASE e.tag = "h3" ->
                      htmlNodes(rest, Append(acc, Node("Heading", "", textContent(e.inner), <<>>)))
               [] e.tag = "p" ->
                      htmlNodes(rest, Append(acc, Node("Paragraph", "", textContent(e.inner), <<>>)))
               [] e.tag = "ul" ->
                      htmlNodes(rest, Append(acc, Node("List", "unordered", <<>>, <<>>)))
               [] e.tag = "ol" ->
                      htmlNodes(rest, Append(acc, Node("List", "ordered", <<>>, <<>>)))
               [] e.tag = "li" ->
                      IF acc # <<>> /\ acc[Len(acc)].node = "List"
                      THEN htmlNodes(rest, [acc EXCEPT ![Len(acc)].items =
                                                Append(@, textContent(e.inner))])
                      ELSE htmlNodes(rest, Append(acc, Node("Item", "", textContent(e.inner), <<>>)))
               [] OTHER -> htmlNodes(rest, acc)

IntroNodes ==
    << Node("Heading", "", <<"I", "n", "t", "r", "o">>, <<>>),
       Node("Paragraph", "", <<"H", "e", "l", "l", "o", " ", "w", "o", "r", "l", "d", ".">>, <<>>),
       Node("List", "unordered", <<>>, << <<"a">>, <<"b">> >>),
       Node("List", "ordered", <<>>, << <<"x">> >>) >>

HeadingAsSpecified(trimmed) ==
    /\ Len(trimmed) >= 4
    /\ startsWith(trimmed, Stars)
    /\ endsWith(trimmed, Stars)
    /\ starsFrom(SubSeq(trimmed, 3, Len(trimmed) - 2), 1) = 0

StructurerStepped == st.at = "lines" /\ st'.at = "lines" /\ st'.idx = st.idx + 1

\* C15: the structurer and the paginator each take a line for a heading if
\* and only if, trimmed, it starts and ends with a bold-marker pair and has
\* no other bold marker in between.
C15_HeadingIffNoMarkerInside ==
    [][/\ StructurerStepped =>
              ((\E i \in (Len(st.html) + 1)..Len(st'.html) : st'.html[i].tag = "h3")
                  <=> HeadingAsSpecified(Trim(doc.lines[st.idx])))
       /\ PaginatorStepped =>
              ((\E i \in 1..Len(Printed(pg, pg')) : Printed(pg, pg')[i].role = "heading")
                  <=> HeadingAsSpecified(Trim(doc.lines[pg.idx])))]_vars

\* the tiers of the specification
Tier(score) ==
    IF score >= 70 THEN "high" ELSE IF score >= 40 THEN "medium" ELSE "low"

ScoreOrZero(c) == IF c.relevance_score = <<>> THEN 0 ELSE c.relevance_score[1]

Classes(item) == {item[k].class : k \in 1..Len(item)}

C18_BootstrapNeverFailsUI ==
    [][/\ ev'.kind = "contextFailure" =>
              /\ phase' = "ready"
              /\ contextId' = Null
              /\ currentAnalysis' = EmptyAnalysis
              /\ currentCases' = <<>>
       /\ phase = "ready" => phase' = "ready"
       /\ (bootstrap = "failed" /\ ev'.kind = "chatSubmit"
               /\ ~AllWhitespace(ev'.text) /\ nextReq < MaxReq) =>
              \E r \in inflight' : r.kind = "chat" /\ r.id = nextReq']_vars

\* C18 witness: the context fetch failed and a message submitted afterwards
\* is on its way to the backend
C18_Witness ==
    /\ bootstrap = "failed"
    /\ ev.kind = "chatSubmit"
    /\ \E r \in ChatReqs : r.id = nextReq /\ r.body.context_id = Null

\* C19: once contextId holds a session id, no step makes it null or
\* undefined again.
C19_SessionIdNeverLost ==
    [][(contextId \in Ids) => (contextId' \in Ids)]_vars

\* C20: whenever clarifyAttempts > 0, contextId is the context_id that the
\* clarifying response which set the counter delivered.
C20_AttemptsBelongToSession ==
    clarifyAttempts > 0 =>
        (lastWrite.status = "clarifying" /\ contextId = lastWrite.context_id)

BootstrapEnds == {"contextResponse", "contextFailure"}

\* C21: no chat, upload, analyze or draft request is issued before the
\* context fetch has ended, so the bootstrap response is applied to the
\* globals as declared and never over what a later response has set.
C21_NoRequestBeforeBootstrapEnds ==
    [][/\ (\E r \in inflight' \ inflight : r.kind # "context") =>
              /\ bootstrap \in {"loaded", "failed"}
              /\ \A r \in inflight : r.kind # "context"
       /\ ev'.kind \in BootstrapEnds =>
              /\ nextReq = 0
              /\ lastWrite.status = "none"
              /\ contextId = Null
              /\ currentAnalysis = EmptyAnalysis
              /\ currentCases = <<>>]_vars

\* C21 witness: the bootstrap response delivered one session id, and a chat
\* response applied later holds another
C21_Witness ==
    /\ bootstrap = "loaded"
    /\ sessionIdEl = "s2"
    /\ contextId = "s2"
    /\ lastWrite.context_id = "s2"
    /\ \A r \in inflight : r.kind # "context"
    /\ \E r \in ChatReqs : r.body.context_id = "s1"

\* C22: whenever the download button is visible, the draft panel shows the
\* document held in currentDraftText, never an error or a placeholder.
C22_VisibleButtonShowsHeldDraft ==
    draftDownloadBtn = "flex" =>
        /\ currentDraftText # <<>>
        /\ draftContent = displayDraft(currentDraftText)

\* the list left open by a sequence of pieces: Null, "ul" or "ol"; "bad"
\* once an item stands outside a list, a list opens inside a list, a
\* closing tag meets no open list of its kind, or a heading or paragraph
\* stands inside a list
RECURSIVE OpenList(_, _)
OpenList(html, open) ==
    IF html = <<>> \/ open = "bad" THEN open
    ELSE LET tag == Head(html).tag
         IN  OpenList(Tail(html),
                 CASE tag \in {"ul", "ol"} -> IF open = Null THEN tag ELSE "bad"
                   [] tag \in {"/ul", "/ol"} -> IF open # Null /\ tag = CloseTag(open)
                                                THEN Null ELSE "bad"
                   [] tag = "li" -> IF open = Null THEN "bad" ELSE open
                   [] tag \in {"h3", "p", "/div"} -> IF open = Null THEN Null ELSE "bad"
                   [] OTHER -> open)

\* C23: while displayDraft goes through the lines, an open paragraph and
\* an open list never coexist; every item is emitted inside an open list,
\* every list opened is closed once by the closing tag of its kind, and no
\* list is opened inside another; at the end nothing is left open.
C23_ParagraphXorListWellFormed ==
    st.at \in {"lines", "done"} =>
        /\ ~(Len(st.currentParagraph) > 0 /\ st.listType # Null)
        /\ OpenList(st.html, Null) = st.listType
        /\ st.at = "done" => (st.listType = Null /\ st.currentParagraph = <<>>)

\* C23 witness: an ordered list is open after an unordered list was closed
\* and a paragraph was emitted
C23_Witness ==
    /\ st.at = "lines"
    /\ st.listType = "ol"
    /\ \E i \in 1..Len(st.html) : st.html[i].tag = "/ul"
    /\ \E i \in 1..Len(st.html) : st.html[i].tag = "p"

\* what a line is to the structurer
LineKind(line) ==
    LET trimmed == Trim(line)
    IN  IF isSectionHeader(trimmed) THEN "heading"
        ELSE IF bulletMatch(trimmed) > 0 THEN "ul"
        ELSE IF numberMatch(trimmed) > 0 THEN "ol"
        ELSE IF trimmed = <<>> THEN "blank"
        ELSE "body"

\* the text of a list-item line without its marker, as it is shown
ItemText(line) ==
    LET trimmed == Trim(line)
    IN  escapeHtml(dropFirst(trimmed, IF LineKind(line) = "ul"
                                      THEN bulletMatch(trimmed)
                                      ELSE numberMatch(trimmed)))

AddItem(lists, item) ==
    [lists EXCEPT ![Len(lists)].items = Append(@, item)]

\* the runs of consecutive list-item lines of one kind, in input order
RECURSIVE ListRuns(_, _, _, _)
ListRuns(lines, i, prev, acc) ==
    IF i > Len(lines) THEN acc
    ELSE LET k == LineKind(lines[i])
         IN  IF k \notin {"ul", "ol"} THEN ListRuns(lines, i + 1, Null, acc)
             ELSE IF k = prev
             THEN ListRuns(lines, i + 1, k, AddItem(acc, ItemText(lines[i])))
             ELSE ListRuns(lines, i + 1, k,
                           Append(acc, [kind |-> k, items |-> <<ItemText(lines[i])>>]))

\* the lists of a sequence of pieces: each opening tag with the items up to
\* the next opening tag
RECURSIVE ListsOf(_, _)
ListsOf(html, acc) ==
    IF html = <<>> THEN acc
    ELSE LET e == Head(html)
         IN  ListsOf(Tail(html),
                 IF e.tag \in {"ul", "ol"}
                 THEN Append(acc, [kind |-> e.tag, items |-> <<>>])
                 ELSE IF e.tag = "li"
                 THEN IF acc = <<>>
                      THEN <<[kind |-> "none", items |-> <<e.inner>>]>>
                      ELSE AddItem(acc, e.inner)
                 ELSE acc)

\* C24: the lists displayDraft emits are the runs of consecutive list-item
\* lines of one kind, each with its items in input order; a line of the
\* other kind ends the run and starts a list of its own kind.
C24_ListsAreRunsOfOneKind ==
    st.at = "done" => ListsOf(st.html, <<>>) = ListRuns(doc.lines, 1, Null, <<>>)

\* C24 witness: a list of two items was emitted, and a list of the other
\* kind right after one of the first
C24_Witness ==
    /\ st.at = "done"
    /\ \E l \in 1..Len(ListsOf(st.html, <<>>)) :
           Len(ListsOf(st.html, <<>>)[l].items) >= 2
    /\ \E i \in 1..(Len(st.html) - 1) :
           st.html[i].tag = "/ul" /\ st.html[i + 1].tag = "ol"

\* the runs of consecutive body-text lines, each run one text: the lines
\* as they are shown, with one space between two of them
RECURSIVE ParagraphRuns(_, _, _, _)
ParagraphRuns(lines, i, prev, acc) ==
    IF i > Len(lines) THEN acc
    ELSE IF LineKind(lines[i]) # "body" THEN ParagraphRuns(lines, i + 1, FALSE, acc)
    ELSE LET shown == processedLine(Trim(lines[i]))
         IN  IF prev
             THEN ParagraphRuns(lines, i + 1, TRUE,
                      [acc EXCEPT ![Len(acc)] = @ \o <<" ">> \o shown])
             ELSE ParagraphRuns(lines, i + 1, TRUE, Append(acc, shown))

\* the texts of the paragraphs of a sequence of pieces
ParagraphsOf(html) ==
    LET ps == SelectSeq(html, LAMBDA e : e.tag = "p")
    IN  [i \in 1..Len(ps) |-> ps[i].inner]

\* what closing the open paragraph and the open list appends
Flushed(s) ==
    (IF Len(s.currentParagraph) > 0
     THEN <<El("p", ParagraphRuns(doc.lines, 1, FALSE, <<>>)[Len(ParagraphsOf(s.html)) + 1])>>
     ELSE <<>>)
    \o (IF s.listType # Null THEN <<El(CloseTag(s.listType), <<>>)>> ELSE <<>>)

\* what a blank line, a body-text line and the end of the input do
BlankBodyAndEnd ==
    /\ (StructurerStepped /\ LineKind(doc.lines[st.idx]) = "blank") =>
          /\ st'.html = st.html \o Flushed(st)
          /\ st'.currentParagraph = <<>>
          /\ st'.listType = Null
    /\ (StructurerStepped /\ LineKind(doc.lines[st.idx]) = "body") =>
          /\ st'.html = st.html \o (IF st.listType # Null
                                     THEN <<El(CloseTag(st.listType), <<>>)>>
                                     ELSE <<>>)
          /\ st'.listType = Null
          /\ st'.currentParagraph =
                 Append(st.currentParagraph, processedLine(Trim(doc.lines[st.idx])))
    /\ (st.at = "lines" /\ st'.at = "done") =>
          st'.html = st.html \o Flushed(st) \o <<El("/div", <<>>)>>

\* C25: the paragraphs displayDraft emits are the runs of consecutive
\* body-text lines, joined by one space; a blank line closes the open
\* paragraph and the open list and appends nothing else; a body-text line
\* closes the open list before it is buffered; the end of the input
\* flushes what is still open.
C25_ParagraphsAreRunsOfBodyText ==
    /\ [](st.at = "done" =>
             ParagraphsOf(st.html) = ParagraphRuns(doc.lines, 1, FALSE, <<>>))
    /\ [][BlankBodyAndEnd]_vars

\* C25 witness: a paragraph of two lines was emitted at a blank line
C25_Witness ==
    /\ st.at = "done"
    /\ \E i \in 1..(Len(doc.lines) - 2) :
           /\ LineKind(doc.lines[i]) = "body"
           /\ LineKind(doc.lines[i + 1]) = "body"
           /\ LineKind(doc.lines[i + 2]) = "blank"
    /\ \E i \in 1..Len(st.html) :
           /\ st.html[i].tag = "p"
           /\ \E j \in 1..Len(st.html[i].inner) : st.html[i].inner[j] = " "

\* the advance of the cursor after a rendered line, in halves
Advance(role) ==
    IF role = "heading" THEN Halves(lineHeight + 3) ELSE Halves(lineHeight)

\* the cursor and the page count after the first k lines of printed
CursorAfter(p, printed, k) ==
    IF k = 0 THEN [y |-> p.y, pages |-> p.pages]
    ELSE [y |-> printed[k].y + Advance(printed[k].role), pages |-> printed[k].page]

\* every printed line stands at the cursor left by the one before it, or
\* at the margin of a page added for it
CursorChain(p, q) ==
    LET printed == Printed(p, q)
    IN  /\ \A k \in 1..Len(printed) :
              LET before == CursorAfter(p, printed, k - 1)
              IN  \/ printed[k].page = before.pages /\ printed[k].y = before.y
                  \/ printed[k].page = before.pages + 1 /\ printed[k].y = Halves(margin)
        /\ q.y = CursorAfter(p, printed, Len(printed)).y
        /\ q.pages = CursorAfter(p, printed, Len(printed)).pages

\* what one line does to the cursor
CursorStep ==
    /\ (pg.at # "lines" /\ pg'.at = "lines") =>
          (pg'.y = Halves(margin) /\ pg'.out = <<>>)
    /\ PaginatorStepped =>
          LET kind == LineKind(doc.lines[pg.idx])
              printed == Printed(pg, pg')
          IN  /\ kind # "blank" => CursorChain(pg, pg')
              /\ kind = "blank" =>
                    /\ printed = <<>>
                    /\ pg'.pages = pg.pages
                    /\ 2 * (pg'.y - pg.y) = Halves(lineHeight)
              /\ kind = "heading" =>
                    (Len(printed) = 1 /\ printed[1].role = "heading")
              /\ kind \notin {"blank", "heading"} =>
                    /\ Len(printed) >= 1
                    /\ \A k \in 1..Len(printed) : printed[k].role = "body"

\* C26: the cursor starts at the margin and is at the margin after every
\* new page; a heading moves it down by lineHeight + 3, each wrapped body
\* line by lineHeight, and a blank line by half a line height, rendering
\* nothing and adding no page.
C26_CursorAdvances ==
    [][CursorStep]_vars

\* C26 witness: a heading was rendered at the margin of a new page and
\* the cursor stands lineHeight + 3 below it
C26_Witness ==
    /\ pg.at = "saved"
    /\ Len(pg.out) >= 2
    /\ pg.out[Len(pg.out)].role = "heading"
    /\ pg.out[Len(pg.out)].page = 2
    /\ pg.out[Len(pg.out)].y = Halves(margin)
    /\ pg.y = Halves(margin + lineHeight + 3)

\* the pages the paginator added
AddedPages(p) == 2..p.pages

\* C27: the page count never decreases, every page the paginator added
\* holds at least one rendered line, and every rendered line stands at
\* y >= margin.
C27_NoBlankPageNoLineAboveMargin ==
    /\ [](pg.at \in {"lines", "saved"} =>
             /\ \A n \in AddedPages(pg) : \E k \in 1..Len(pg.out) : pg.out[k].page = n
             /\ \A k \in 1..Len(pg.out) : pg.out[k].y >= Halves(margin))
    /\ [][(pg.at = "lines" /\ pg'.at \in {"lines", "saved"}) =>
              pg'.pages >= pg.pages]_vars

\* C27 witness: a second page was added at a body line, after blank-free
\* lines filled the first, and the line was rendered on it
C27_Witness ==
    /\ pg.at = "saved"
    /\ pg.pages = 2
    /\ Len(pg.out) >= 2
    /\ pg.out[Len(pg.out)].role = "body"
    /\ pg.out[Len(pg.out)].page = 2
    /\ pg.out[Len(pg.out) - 1].page = 1
    /\ pg.out[Len(pg.out) - 1].line # pg.out[Len(pg.out)].line

\* the texts an array of answers holds
Answers(body) == {body.clarification_answers[i] : i \in 1..Len(body.clarification_answers)}

\* C28: in the alternative client, a message submitted in clarify mode
\* triggers a request with clarified = true whose clarification_answers
\* hold that message.
C28_AnswerReachesBackend ==
    [][(/\ ev'.kind = "variantSubmit"
        /\ clarifyMode
        /\ Trim(ev'.text) # <<>>) =>
           \E r \in inflight' \ inflight :
               /\ r.body.clarified = TRUE
               /\ Trim(ev'.text) \in Answers(r.body)]_vars

====
